---- MODULE Spec2Model ----
(***************************************************************************)
(* The Pipeline: the hash router (js/router.js, PipelineRouter) and the    *)
(* CMS clients with their TTL caches (js/api.js, AppwriteAPIService; the   *)
(* Sanity client SanityAPIService).                                        *)
(*                                                                         *)
(* Strings are TLA+ strings; split, includes and startsWith are computed   *)
(* character by character with Len and SubSeq.  Time is Date.now() in      *)
(* milliseconds.  The JavaScript event loop is modelled as follows: one    *)
(* action is one turn of the loop with all the microtasks it queues, i.e.  *)
(* code from an event (hashchange, a network response) up to the next      *)
(* await of a network call.                                                *)
(***************************************************************************)
EXTENDS Integers, Sequences, FiniteSets, TLC

VARIABLES
    now,          \* Date.now()
    db,           \* remote store: per collection, the number of records created
    cache,        \* AppwriteAPIService.cache: key -> [data, timestamp]
    calls,        \* API calls awaiting a remote response
    lastOp,       \* the API call that returned last (history)
    hash,         \* window.location.hash without the leading '#'
    currentRoute, \* PipelineRouter.currentRoute
    content,      \* innerHTML of the content region (what page it shows)
    loader,       \* a .route-loader element is in the document
    navActive,    \* href of the .nav-item carrying class "active"
    title,        \* document.title
    dispatches,   \* handleRoute invocations suspended at `await handler(params)`
    lastDispatch, \* the handleRoute invocation that finished last (history)
    raced,        \* routes whose dispatch was in flight at the last hash change
    sanityCache,  \* SanityAPIService.cache
    sanityCalls,  \* SanityAPIService.fetchWithCache calls awaiting fetch()
    sanityLast,   \* the fetchWithCache call that returned last (history)
    inputs,       \* navigations and direct client calls made so far
    routeTable,   \* a router's this.routes while routes are being added
    requested,    \* the route last given to parseRoute
    parsed,       \* what parseRoute returned for it
    registered    \* the last call of addRoute (history)

apiVars    == <<now, db, cache, calls, lastOp>>
routerVars == <<hash, currentRoute, content, loader, navActive, title,
                dispatches, lastDispatch, raced>>
sanityVars == <<sanityCache, sanityCalls, sanityLast>>
parseVars  == <<routeTable, requested, parsed, registered>>
vars       == <<now, db, cache, calls, lastOp, hash, currentRoute, content,
                loader, navActive, title, dispatches, lastDispatch, raced,
                sanityCache, sanityCalls, sanityLast, inputs,
                routeTable, requested, parsed, registered>>

-----------------------------------------------------------------------------
(* Bounds of the model.                                                    *)

\* navigations after the page was opened
MaxNav == 1
\* calls other code makes on a CMS client
MaxIssued == 2
\* the clock runs for MaxLong cache lifetimes
MaxLong == 1

-----------------------------------------------------------------------------
(* String helpers (String.prototype.split / includes / startsWith / trim). *)

Includes(s, t) ==
    \E i \in 1..(Len(s) - Len(t) + 1) : SubSeq(s, i, i + Len(t) - 1) = t

StartsWith(s, t) == Len(s) >= Len(t) /\ SubSeq(s, 1, Len(t)) = t

\* positions of the one-character separator sep in s
SepPositions(s, sep) == {i \in 1..Len(s) : SubSeq(s, i, i) = sep}

RECURSIVE SplitFrom(_, _, _)
SplitFrom(s, sep, from) ==
    LET later == {i \in SepPositions(s, sep) : i >= from}
    IN  IF later = {}
        THEN <<SubSeq(s, from, Len(s))>>
        ELSE LET p == CHOOSE i \in later : \A j \in later : i <= j
             IN  <<SubSeq(s, from, p - 1)>> \o SplitFrom(s, sep, p + 1)

\* s.split(sep) for a one-character separator
Split(s, sep) == SplitFrom(s, sep, 1)

\* s.trim() === "" for the strings of the model (blanks are spaces)
IsBlank(s) == \A i \in 1..Len(s) : SubSeq(s, i, i) = " "

-----------------------------------------------------------------------------
(* Values handed around by the CMS clients.  Records are opaque to the     *)
(* core; a value says where it came from (the remote store or the static   *)
(* example data), what it is, and for remote data which revision of the    *)
(* collection it reflects.                                                 *)

\* a page of documents answered by the remote store for query q
RemotePage(coll, q, rev) ==
    [src |-> "remote", kind |-> "page", coll |-> coll, q |-> q, rev |-> rev,
     company |-> FALSE]

\* one document answered by the remote store; company: the related company
\* record is embedded
RemoteRecord(coll, q, company) ==
    [src |-> "remote", kind |-> "record", coll |-> coll, q |-> q, rev |-> 0,
     company |-> company]

\* the statically defined example records of a collection
MockPage(coll) ==
    [src |-> "mock", kind |-> "page", coll |-> coll, q |-> "", rev |-> 0,
     company |-> FALSE]

\* null
Null ==
    [src |-> "none", kind |-> "null", coll |-> "", q |-> "", rev |-> 0,
     company |-> FALSE]

\* a summary object (getFeaturedContent, getDashboardStats)
Summary(src, what) ==
    [src |-> src, kind |-> "summary", coll |-> what, q |-> "", rev |-> 0,
     company |-> FALSE]

\* a thrown error, as the value of a rejected promise
ErrorValue ==
    [src |-> "none", kind |-> "error", coll |-> "", q |-> "", rev |-> 0,
     company |-> FALSE]

\* the merged, tagged hits of a search: an array of n hits
SearchHits(n) ==
    [src |-> "search", kind |-> "hits", coll |-> "", q |-> "", rev |-> n,
     company |-> FALSE]

\* []
EmptyList == SearchHits(0)

-----------------------------------------------------------------------------
(* AppwriteAPIService: the cache helpers.                                  *)

\* this.cacheTimeout
cacheTimeout == 5 * 60 * 1000

\* this.collections
collections == {"opportunities", "companies", "regulatory", "articles"}

\* a property of a query object: its key and a string or a number
Str(k, v) == <<k, "string", v>>
Num(k, v) == <<k, "number", v>>

\* JSON.stringify of one property value
JsonValue(e) ==
    IF e[2] = "string" THEN "\"" \o e[3] \o "\"" ELSE ToString(e[3])

RECURSIVE JsonProps(_, _)
JsonProps(query, i) ==
    IF i > Len(query) THEN ""
    ELSE (IF i > 1 THEN "," ELSE "")
         \o "\"" \o query[i][1] \o "\":" \o JsonValue(query[i])
         \o JsonProps(query, i + 1)

\* JSON.stringify(query) for an object given as its properties in insertion
\* order
Stringify(query) == "{" \o JsonProps(query, 1) \o "}"

getCacheKey(collection, query) == collection \o "_" \o Stringify(query)

CacheHas(c, key) == key \in DOMAIN c

\* isValidCache(this.cache.get(key)) at time t
\* a variant that still counts an entry of age cacheTimeout as fresh
isValidCacheInclusive(c, key, t) ==
    CacheHas(c, key) /\ t - c[key].timestamp <= cacheTimeout

isValidCache(c, key, t) ==
    CacheHas(c, key) /\ t - c[key].timestamp < cacheTimeout

\* this.cache after setCache(key, data) at time t
setCache(c, key, data, t) ==
    [k \in DOMAIN c \cup {key} |->
        IF k = key THEN [data |-> data, timestamp |-> t] ELSE c[k]]

\* a variant of clearCacheByCollection that deletes the keys that begin with
\* the collection name
clearCacheByCollectionPrefix(c, collection) ==
    [k \in {x \in DOMAIN c : ~StartsWith(x, collection)} |-> c[k]]

\* this.cache after clearCacheByCollection(collection)
clearCacheByCollection(c, collection) ==
    [k \in {x \in DOMAIN c : ~Includes(x, collection)} |-> c[k]]

\* this.cache after clearCache()
clearCache(c) == [k \in {} |-> Null]

getMockOpportunities == MockPage("opportunities")
getMockCompanies == MockPage("companies")
getMockRegulatory == MockPage("regulatory")
getMockArticles == MockPage("articles")

\* the catch branch of the four list operations
MockOf(coll) ==
    CASE coll = "opportunities" -> getMockOpportunities
      [] coll = "companies" -> getMockCompanies
      [] coll = "regulatory" -> getMockRegulatory
      [] OTHER -> getMockArticles

getMockFeaturedContent == Summary("mock", "featured")

\* the literal returned by the catch branch of getDashboardStats
MockDashboardStats == Summary("mock", "stats")

-----------------------------------------------------------------------------
(* PipelineRouter: the route table and parseRoute.                         *)

\* a variant of addRoute that leaves a pattern already registered as it is
addRouteKeepsFirst(rs, path, handler) ==
    IF \E i \in 1..Len(rs) : rs[i].path = path
    THEN rs
    ELSE Append(rs, [path |-> path, handler |-> handler])

\* this.routes after addRoute(path, handler): Map.set keeps the position of
\* an existing key and appends a new one
addRoute(rs, path, handler) ==
    IF \E i \in 1..Len(rs) : rs[i].path = path
    THEN [i \in 1..Len(rs) |->
            IF rs[i].path = path THEN [path |-> path, handler |-> handler]
            ELSE rs[i]]
    ELSE Append(rs, [path |-> path, handler |-> handler])

\* this.routes after setupRoutes()
setupRoutes ==
    LET r1  == addRoute(<<>>, "", "renderHome")
        r2  == addRoute(r1, "home", "renderHome")
        r3  == addRoute(r2, "opportunities", "renderOpportunities")
        r4  == addRoute(r3, "opportunities/:id", "renderOpportunityDetail")
        r5  == addRoute(r4, "directory", "renderDirectory")
        r6  == addRoute(r5, "directory/:id", "renderCompanyDetail")
        r7  == addRoute(r6, "regulatory", "renderRegulatory")
        r8  == addRoute(r7, "regulatory/:id", "renderRegulatoryDetail")
        r9  == addRoute(r8, "insights", "renderInsights")
        r10 == addRoute(r9, "insights/:id", "renderInsightDetail")
    IN  addRoute(r10, "search", "renderSearch")

\* routes are registered once, by the constructor
routes == setupRoutes

\* this.routes.get(path): the handler, or "undefined"
RoutesGet(rs, path) ==
    IF \E i \in 1..Len(rs) : rs[i].path = path
    THEN rs[CHOOSE i \in 1..Len(rs) : rs[i].path = path].handler
    ELSE "undefined"

\* the inner loop of parseRoute: isMatch
SegmentsMatch(pathParts, parts) ==
    \A i \in 1..Len(pathParts) :
        StartsWith(pathParts[i], ":") \/ pathParts[i] = parts[i]

\* a variant of TempParams that binds a parameter only to a non-empty segment
RECURSIVE TempParamsNonEmpty(_, _, _)
TempParamsNonEmpty(pathParts, parts, i) ==
    IF i > Len(pathParts) THEN <<>>
    ELSE (IF StartsWith(pathParts[i], ":") /\ parts[i] # ""
          THEN <<<<SubSeq(pathParts[i], 2, Len(pathParts[i])), parts[i]>>>>
          ELSE <<>>)
         \o TempParamsNonEmpty(pathParts, parts, i + 1)

\* the inner loop of parseRoute: tempParams, as <<name, value>> pairs
RECURSIVE TempParams(_, _, _)
TempParams(pathParts, parts, i) ==
    IF i > Len(pathParts) THEN <<>>
    ELSE (IF StartsWith(pathParts[i], ":")
          THEN <<<<SubSeq(pathParts[i], 2, Len(pathParts[i])), parts[i]>>>>
          ELSE <<>>)
         \o TempParams(pathParts, parts, i + 1)

\* a variant of PatternMatches that compares the segments of the pattern
\* without comparing the segment counts
PatternMatchesPrefix(rs, i, parts) ==
    LET pathParts == Split(rs[i].path, "/")
    IN  Len(pathParts) <= Len(parts) /\ SegmentsMatch(pathParts, parts)

\* the pattern at position i of the table matches the route
PatternMatches(rs, i, parts) ==
    LET pathParts == Split(rs[i].path, "/")
    IN  Len(pathParts) = Len(parts) /\ SegmentsMatch(pathParts, parts)

\* a variant of parseRoute whose loop has no break: the last matching
\* pattern wins
parseRouteLast(rs, route) ==
    LET parts == Split(route, "/")
        hits  == {i \in 1..Len(rs) : PatternMatches(rs, i, parts)}
    IN  IF hits = {}
        THEN [path |-> "", params |-> <<>>, route |-> route, matched |-> FALSE]
        ELSE LET i == CHOOSE k \in hits : \A j \in hits : k >= j
             IN  [path |-> rs[i].path,
                  params |-> TempParams(Split(rs[i].path, "/"), parts, 1),
                  route |-> route, matched |-> TRUE]

\* parseRoute(route) on the route table rs: the first pattern in insertion
\* order that matches, with its parameters
parseRoute(rs, route) ==
    LET parts == Split(route, "/")
        hits  == {i \in 1..Len(rs) : PatternMatches(rs, i, parts)}
    IN  IF hits = {}
        THEN [path |-> "", params |-> <<>>, route |-> route, matched |-> FALSE]
        ELSE LET i == CHOOSE k \in hits : \A j \in hits : k <= j
             IN  [path |-> rs[i].path,
                  params |-> TempParams(Split(rs[i].path, "/"), parts, 1),
                  route |-> route, matched |-> TRUE]

\* params[name], "undefined" when the key is absent; a later binding of the
\* same name wins
ParamGet(params, name) ==
    LET at == {i \in 1..Len(params) : params[i][1] = name}
    IN  IF at = {} THEN "undefined"
        ELSE params[CHOOSE i \in at : \A j \in at : i >= j][2]

\* new URLSearchParams(queryString).get(name) || "", for a query string of
\* the form k=v&k=v (no percent-escapes in the model's routes)
QueryGet(queryString, name) ==
    LET pairs == IF queryString = "" THEN <<>> ELSE Split(queryString, "&")
        at == {i \in 1..Len(pairs) : Split(pairs[i], "=")[1] = name}
    IN  IF at = {} THEN ""
        ELSE LET kv == Split(pairs[CHOOSE i \in at : \A j \in at : i <= j], "=")
             IN  IF Len(kv) >= 2 THEN kv[2] ELSE ""

\* window.location.hash.split("?")[1] || ""
HashQuery(h) ==
    LET ps == Split(h, "?") IN IF Len(ps) >= 2 THEN ps[2] ELSE ""

\* what each handler is: the kind of page and the collection it reads
HandlerInfo(handler) ==
    CASE handler = "renderHome" -> [kind |-> "home", coll |-> ""]
      [] handler = "renderOpportunities" -> [kind |-> "list", coll |-> "opportunities"]
      [] handler = "renderOpportunityDetail" -> [kind |-> "detail", coll |-> "opportunities"]
      [] handler = "renderDirectory" -> [kind |-> "list", coll |-> "companies"]
      [] handler = "renderCompanyDetail" -> [kind |-> "detail", coll |-> "companies"]
      [] handler = "renderRegulatory" -> [kind |-> "list", coll |-> "regulatory"]
      [] handler = "renderRegulatoryDetail" -> [kind |-> "detail", coll |-> "regulatory"]
      [] handler = "renderInsights" -> [kind |-> "list", coll |-> "articles"]
      [] handler = "renderInsightDetail" -> [kind |-> "detail", coll |-> "articles"]
      [] handler = "renderSearch" -> [kind |-> "search", coll |-> ""]
      [] handler = "failingHandler" -> [kind |-> "throws", coll |-> ""]
      [] handler = "submitHandler" -> [kind |-> "submit", coll |-> "opportunities"]
      [] OTHER -> [kind |-> "none", coll |-> ""]

\* the filters object a list handler passes to the CMS client; params has no
\* page, type, sector, source or category key, so the defaults apply
ListFilters(handler) ==
    CASE handler = "renderOpportunities" ->
            <<Str("type", ""), Str("sector", ""), Num("limit", 12),
              Num("offset", (1 - 1) * 12)>>
      [] handler = "renderDirectory" ->
            <<Str("sector", ""), Num("limit", 12), Num("offset", (1 - 1) * 12)>>
      [] handler = "renderRegulatory" ->
            <<Str("source", ""), Num("limit", 12), Num("offset", (1 - 1) * 12)>>
      [] OTHER ->
            <<Str("category", ""), Num("limit", 12), Num("offset", (1 - 1) * 12)>>

\* the static path -> title lookup of updatePageTitle
updatePageTitle(route) ==
    LET basePath == Split(Split(route, "/")[1], "?")[1]
    IN  CASE basePath \in {"", "home"} -> "The Pipeline - Nigerian Oil & Gas Hub"
          [] basePath = "opportunities" -> "Opportunities Hub - The Pipeline"
          [] basePath = "directory" -> "Company Directory - The Pipeline"
          [] basePath = "regulatory" -> "Regulatory Updates - The Pipeline"
          [] basePath = "insights" -> "Market Intelligence - The Pipeline"
          [] basePath = "search" -> "Search - The Pipeline"
          [] OTHER -> "The Pipeline"

\* the hrefs "#..." of the .nav-item elements of the page
NavItems == {"opportunities", "directory", "regulatory", "insights"}

\* the item updateNavigation marks active for location hash h
updateNavigation(h) ==
    LET mainRoute == Split(h, "/")[1]
    IN  IF mainRoute \in NavItems THEN mainRoute ELSE "none"

-----------------------------------------------------------------------------
(* The state as one record, so that a handler and the CMS call it awaits   *)
(* compose as functions from state to state.                               *)

Cur ==
    [now |-> now, db |-> db, cache |-> cache, calls |-> calls,
     lastOp |-> lastOp, hash |-> hash, currentRoute |-> currentRoute,
     content |-> content, loader |-> loader, navActive |-> navActive,
     title |-> title, dispatches |-> dispatches,
     lastDispatch |-> lastDispatch, raced |-> raced,
     routes |-> routeTable,    \* this.routes
     event |-> inputs]         \* the number of the latest navigation event

\* the next state is S
Becomes(S) ==
    /\ now' = S.now
    /\ db' = S.db
    /\ cache' = S.cache
    /\ calls' = S.calls
    /\ lastOp' = S.lastOp
    /\ hash' = S.hash
    /\ currentRoute' = S.currentRoute
    /\ content' = S.content
    /\ loader' = S.loader
    /\ navActive' = S.navActive
    /\ title' = S.title
    /\ dispatches' = S.dispatches
    /\ lastDispatch' = S.lastDispatch
    /\ raced' = S.raced

NoEntry == [data |-> Null, timestamp |-> -1]

\* this.cache.get(key), NoEntry for undefined
CacheGet(c, key) == IF CacheHas(c, key) THEN c[key] ELSE NoEntry

\* what is remembered of the call that returned before a call was made
NoPrev ==
    [op |-> "none", key |-> "", res |-> Null, remote |-> 0,
     failed |-> FALSE, t0 |-> 0]

NoOp ==
    [op |-> "none", coll |-> "", key |-> "", res |-> Null, threw |-> FALSE,
     remote |-> 0, failed |-> FALSE, t0 |-> 0, entry0 |-> NoEntry,
     answered |-> 0, q |-> "", found |-> <<>>, prev |-> NoPrev]

PrevOf(l) ==
    [op |-> l.op, key |-> l.key, res |-> l.res, remote |-> l.remote,
     failed |-> l.failed, t0 |-> l.t0]

NoDispatch ==
    [id |-> 0, route |-> "", path |-> "", handler |-> "undefined",
     params |-> <<>>, event |-> 0]

NoDone ==
    [route |-> "", path |-> "", handler |-> "undefined", view |-> "none",
     res |-> Null, failed |-> FALSE, threw |-> FALSE, event |-> 0,
     rejected |-> FALSE]

\* the views of the content region
View404 == [view |-> "404", page |-> "", data |-> Null]
ViewError == [view |-> "error", page |-> "", data |-> Null]
ViewInitial == [view |-> "initial", page |-> "", data |-> Null]

\* a variant of hideLoading that leaves the loader in the document
hideLoadingKeeps(S) == S

\* hideLoading(): the .route-loader element, if any, is removed
hideLoading(S) == [S EXCEPT !.loader = FALSE]

\* showLoading(): a .route-loader element is appended unless one exists
showLoading(S) == [S EXCEPT !.loader = TRUE]

-----------------------------------------------------------------------------
(* PipelineRouter: what a handler renders once the CMS call it awaited has *)
(* returned res (or thrown), and the rest of handleRoute after it.         *)

\* renderOpportunityDetail .. renderInsightDetail after the await
RenderDetail(handler, coll, res, threw) ==
    IF threw THEN ViewError                       \* catch: renderError
    ELSE IF res.kind = "null" THEN View404        \* if (!record) render404
    ELSE IF coll = "opportunities" /\ ~res.company
         THEN ViewError  \* opportunity.company.companyName throws TypeError
    ELSE [view |-> "detail", page |-> handler, data |-> res]

\* renderOpportunities, renderDirectory, renderRegulatory, renderInsights
\* after the await
RenderList(handler, res, threw) ==
    IF threw THEN ViewError
    ELSE [view |-> "list", page |-> handler, data |-> res]

\* renderSearch after the await
RenderSearchResults(handler, res, threw) ==
    IF threw THEN ViewError
    ELSE [view |-> "results", page |-> handler, data |-> res]

\* renderHome: the markup does not depend on the featured content
RenderHomeView(handler) == [view |-> "home", page |-> handler, data |-> Null]

\* the page a handler puts into the content region
Rendered(d, res, threw) ==
    LET info == HandlerInfo(d.handler)
    IN  CASE info.kind = "home" -> RenderHomeView(d.handler)
          [] info.kind = "list" -> RenderList(d.handler, res, threw)
          [] info.kind = "detail" -> RenderDetail(d.handler, info.coll, res, threw)
          [] OTHER -> RenderSearchResults(d.handler, res, threw)

\* handleRoute from the return of `await handler(params)` to its end, the
\* handler having put view v into the content region (setContent):
\* updateNavigation, trackPageView, and hideLoading in the finally block
handleRouteEnd(S, d, v, op) ==
    hideLoading(
    [S EXCEPT
        !.content = v,
        !.navActive = updateNavigation(S.hash),
        !.title = updatePageTitle(d.route),
        !.dispatches = [i \in DOMAIN S.dispatches |->
                           IF i = d.id THEN NoDispatch ELSE S.dispatches[i]],
        !.lastDispatch = [route |-> d.route, path |-> d.path,
                          handler |-> d.handler, view |-> v.view,
                          res |-> op.res, failed |-> op.failed,
                          threw |-> op.threw, event |-> d.event,
                          rejected |-> FALSE]])

\* a variant of handleRouteCatch without the catch block: the finally block
\* runs and the rejection leaves handleRoute
handleRouteCatchRethrow(S, d, op) ==
    hideLoading(
    [S EXCEPT
        !.dispatches = [i \in DOMAIN S.dispatches |->
                           IF i = d.id THEN NoDispatch ELSE S.dispatches[i]],
        !.lastDispatch = [route |-> d.route, path |-> d.path,
                          handler |-> d.handler, view |-> "unhandled",
                          res |-> op.res, failed |-> op.failed,
                          threw |-> op.threw, event |-> d.event,
                          rejected |-> TRUE]])

\* handleRoute when `await handler(params)` throws: the catch block
\* (renderError) and the finally block (hideLoading); updateNavigation and
\* trackPageView are skipped
handleRouteCatch(S, d, op) ==
    hideLoading(
    [S EXCEPT
        !.content = ViewError,
        !.dispatches = [i \in DOMAIN S.dispatches |->
                           IF i = d.id THEN NoDispatch ELSE S.dispatches[i]],
        !.lastDispatch = [route |-> d.route, path |-> d.path,
                          handler |-> d.handler, view |-> "error",
                          res |-> op.res, failed |-> op.failed,
                          threw |-> op.threw, event |-> d.event,
                          rejected |-> TRUE]])

\* the handler d resumes with the value (or the exception) of the CMS call
\* it awaited
handlerResume(S, d, res, threw) ==
    IF HandlerInfo(d.handler).kind = "submit"
    THEN IF threw THEN handleRouteCatch(S, d, S.lastOp)
         ELSE handleRouteEnd(S, d, [view |-> "custom", page |-> d.handler,
                                    data |-> res], S.lastOp)
    ELSE handleRouteEnd(S, d, Rendered(d, res, threw), S.lastOp)

-----------------------------------------------------------------------------
(* AppwriteAPIService: the operations.  A call either returns at once or   *)
(* is left in S.calls, awaiting the remote store.                          *)

NewCall(S, op, coll, key, q, d) ==
    [op |-> op, coll |-> coll, key |-> key, q |-> q, stage |-> 1,
     part |-> Null,
     rev0 |-> IF coll \in collections THEN S.db[coll] ELSE 0,
     t0 |-> S.now, entry0 |-> CacheGet(S.cache, key),
     prev |-> PrevOf(S.lastOp), disp |-> d.id, answered |-> 0,
     found |-> <<>>,
     todo |-> <<>>, hits |-> 0, remote |-> 0, failed |-> FALSE]

\* the call c returns res to its caller (or throws): the caller is a
\* suspended handler of the router (d) or some other code (NoDispatch)
apiReturn(S, c, d, res, threw) ==
    LET S1 == [S EXCEPT !.lastOp =
                  [op |-> c.op, coll |-> c.coll, key |-> c.key, res |-> res,
                   threw |-> threw, remote |-> c.remote, failed |-> c.failed,
                   t0 |-> c.t0, entry0 |-> c.entry0,
                   answered |-> c.answered,
                   q |-> IF c.op = "search" THEN c.q ELSE "",
                   found |-> c.found, prev |-> c.prev]]
    IN  IF d.handler = "undefined" THEN S1 ELSE handlerResume(S1, d, res, threw)

\* the call c awaits a remote response
apiAwait(S, c) == [S EXCEPT !.calls = Append(@, [c EXCEPT !.remote = @ + 1])]

\* a variant of getList that deletes the entry it finds stale
getListEvict(S, coll, filters, d) ==
    LET cacheKey == getCacheKey(coll, filters)
        c == NewCall(S, "list", coll, cacheKey, Stringify(filters), d)
    IN  IF isValidCache(S.cache, cacheKey, S.now)
        THEN apiReturn(S, c, d, S.cache[cacheKey].data, FALSE)
        ELSE apiAwait([S EXCEPT !.cache =
                          [k \in DOMAIN @ \ {cacheKey} |-> @[k]]], c)

\* getOpportunities, getCompanies, getRegulatoryUpdates, getArticles up to
\* the await of listDocuments
getList(S, coll, filters, d) ==
    LET cacheKey == getCacheKey(coll, filters)
        c == NewCall(S, "list", coll, cacheKey, Stringify(filters), d)
    IN  IF isValidCache(S.cache, cacheKey, S.now)
        THEN apiReturn(S, c, d, S.cache[cacheKey].data, FALSE)
        ELSE apiAwait(S, c)

\* the cache key prefix of the by-id operations; "" where the operation
\* does not use the cache (getRegulatoryUpdateById, getArticleById)
ByIdPrefix(coll) ==
    CASE coll = "opportunities" -> "opportunity"
      [] coll = "companies" -> "company"
      [] OTHER -> ""

\* getOpportunityById, getCompanyById, getRegulatoryUpdateById,
\* getArticleById up to the await of getDocument
getById(S, coll, id, d) ==
    LET q == Stringify(<<Str("id", id)>>)
        cacheKey == IF ByIdPrefix(coll) = "" THEN ""
                    ELSE getCacheKey(ByIdPrefix(coll), <<Str("id", id)>>)
        c == NewCall(S, "getById", coll, cacheKey, q, d)
    IN  IF cacheKey # "" /\ isValidCache(S.cache, cacheKey, S.now)
        THEN apiReturn(S, c, d, S.cache[cacheKey].data, FALSE)
        ELSE apiAwait(S, c)

\* createOpportunity, createCompany, createRegulatoryUpdate, createArticle
\* up to the await of createDocument
create(S, coll) ==
    apiAwait(S, NewCall(S, "create", coll, "", "", NoDispatch))

\* getFeaturedContent / getDashboardStats up to the await of Promise.all:
\* four listDocuments requests are issued
fanOut(S, op, d) ==
    LET c == NewCall(S, op, "", "", "", d)
    IN  [S EXCEPT !.calls = Append(@, [c EXCEPT !.remote = 4])]

\* the keys of this.collections in insertion order
CollectionKeys == <<"opportunities", "companies", "regulatory", "articles">>

\* types.filter(t => this.collections[t]) or Object.keys(this.collections)
collectionsToSearch(types) ==
    IF Len(types) > 0
    THEN SelectSeq(types, LAMBDA t : t \in collections)
    ELSE CollectionKeys

\* a variant of search that tests the term for emptiness without trimming it
searchNoTrim(S, searchTerm, types, d) ==
    LET c == NewCall(S, "search", "", "", searchTerm, d)
        todo == collectionsToSearch(types)
    IN  IF searchTerm = "" THEN apiReturn(S, c, d, EmptyList, FALSE)
        ELSE IF todo = <<>> THEN apiReturn(S, c, d, SearchHits(0), FALSE)
        ELSE apiAwait(S, [c EXCEPT !.todo = todo])

\* search up to the first await of listDocuments
search(S, searchTerm, types, d) ==
    LET c == NewCall(S, "search", "", "", searchTerm, d)
        todo == collectionsToSearch(types)
    IN  IF IsBlank(searchTerm) THEN apiReturn(S, c, d, EmptyList, FALSE)
        ELSE IF todo = <<>> THEN apiReturn(S, c, d, SearchHits(0), FALSE)
        ELSE apiAwait(S, [c EXCEPT !.todo = todo])

-----------------------------------------------------------------------------
(* AppwriteAPIService: the operations after an await.  The remote store    *)
(* answers the request of the call at position i of S.calls: ok says       *)
(* whether the promise resolved; flag and n are what the answer holds.     *)

RemoveAt(seq, i) == SubSeq(seq, 1, i - 1) \o SubSeq(seq, i + 1, Len(seq))

Min(a, b) == IF a <= b THEN a ELSE b

\* the suspended handler that awaits call c
CallerOf(S, c) == IF c.disp = 0 THEN NoDispatch ELSE S.dispatches[c.disp]

\* a variant of listSettled whose catch branch rethrows, as create does
listSettledRethrow(S, c, d, ok, n) ==
    IF ok
    THEN LET documents == RemotePage(c.coll, c.q, n)
         IN  apiReturn([S EXCEPT !.cache = setCache(@, c.key, documents, S.now)],
                       c, d, documents, FALSE)
    ELSE apiReturn(S, [c EXCEPT !.failed = TRUE], d, ErrorValue, TRUE)

\* a variant of listSettled whose catch branch stores the mock list under
\* the key of the call
listSettledCachesMock(S, c, d, ok, n) ==
    IF ok
    THEN LET documents == RemotePage(c.coll, c.q, n)
         IN  apiReturn([S EXCEPT !.cache = setCache(@, c.key, documents, S.now)],
                       c, d, documents, FALSE)
    ELSE apiReturn([S EXCEPT !.cache = setCache(@, c.key, MockOf(c.coll), S.now)],
                   [c EXCEPT !.failed = TRUE], d, MockOf(c.coll), FALSE)

\* a variant of listSettled that returns the page without caching it
listSettledUncached(S, c, d, ok, n) ==
    IF ok
    THEN apiReturn(S, c, d, RemotePage(c.coll, c.q, n), FALSE)
    ELSE apiReturn(S, [c EXCEPT !.failed = TRUE], d, MockOf(c.coll), FALSE)

\* a variant of listSettled that drops the answer of a request whose caller
\* is a dispatch of a route that is no longer the current one
listSettledUnlessSuperseded(S, c, d, ok, n) ==
    IF ok
    THEN LET documents == RemotePage(c.coll, c.q, n)
             S1 == IF d.handler # "undefined" /\ d.route # S.hash
                   THEN S
                   ELSE [S EXCEPT !.cache = setCache(@, c.key, documents, S.now)]
         IN  apiReturn(S1, c, d, documents, FALSE)
    ELSE apiReturn(S, [c EXCEPT !.failed = TRUE], d, MockOf(c.coll), FALSE)

\* listDocuments answered: n is the revision of the collection the page shows
listSettled(S, c, d, ok, n) ==
    IF ok
    THEN LET documents == RemotePage(c.coll, c.q, n)
         IN  apiReturn([S EXCEPT !.cache = setCache(@, c.key, documents, S.now)],
                       c, d, documents, FALSE)
    ELSE apiReturn(S, [c EXCEPT !.failed = TRUE], d, MockOf(c.coll), FALSE)

\* a variant of getByIdSettled whose catch branch returns mock data, as the
\* list operations do
getByIdSettledMock(S, c, d, ok, flag) ==
    IF ~ok THEN apiReturn(S, [c EXCEPT !.failed = TRUE], d, MockOf(c.coll), FALSE)
    ELSE IF c.stage = 1 /\ c.coll = "opportunities" /\ flag
    THEN apiAwait(S, [c EXCEPT !.stage = 2,
                               !.part = RemoteRecord(c.coll, c.q, FALSE)])
    ELSE LET record == RemoteRecord(c.coll, c.q, c.stage = 2)
         IN  apiReturn(IF c.key = "" THEN S
                       ELSE [S EXCEPT !.cache = setCache(@, c.key, record, S.now)],
                       c, d, record, FALSE)

\* getDocument answered: flag says that the opportunity has a companyId
getByIdSettled(S, c, d, ok, flag) ==
    IF ~ok THEN apiReturn(S, [c EXCEPT !.failed = TRUE], d, Null, FALSE)
    ELSE IF c.stage = 1 /\ c.coll = "opportunities" /\ flag
    THEN apiAwait(S, [c EXCEPT !.stage = 2,
                               !.part = RemoteRecord(c.coll, c.q, FALSE)])
    ELSE LET record == RemoteRecord(c.coll, c.q, c.stage = 2)
         IN  apiReturn(IF c.key = "" THEN S
                       ELSE [S EXCEPT !.cache = setCache(@, c.key, record, S.now)],
                       c, d, record, FALSE)

\* a variant of createSettled whose catch branch returns null, as the by-id
\* reads do
createSettledSwallow(S, c, d, ok) ==
    IF ok
    THEN apiReturn([S EXCEPT !.db[c.coll] = @ + 1,
                             !.cache = clearCacheByCollection(@, c.coll)],
                   c, d, RemoteRecord(c.coll, "", FALSE), FALSE)
    ELSE apiReturn(S, [c EXCEPT !.failed = TRUE], d, Null, FALSE)

\* createDocument answered
createSettled(S, c, d, ok) ==
    IF ok
    THEN apiReturn([S EXCEPT !.db[c.coll] = @ + 1,
                             !.cache = clearCacheByCollection(@, c.coll)],
                   c, d, RemoteRecord(c.coll, "", FALSE), FALSE)
    ELSE apiReturn(S, [c EXCEPT !.failed = TRUE], d, ErrorValue, TRUE)

\* the value getFeaturedContent / getDashboardStats assembles from the four
\* answers
Assembled(op) == Summary("remote", op)

\* the value of the catch branch of getFeaturedContent / getDashboardStats
FanOutFallback(op) ==
    IF op = "featured" THEN getMockFeaturedContent ELSE MockDashboardStats

\* a variant of fanOutSettled that assembles what arrived when one request
\* fails after others were answered
fanOutSettledPartial(S, c, d, ok, n) ==
    LET c1 == [c EXCEPT !.answered = n, !.failed = ~ok]
    IN  IF ok \/ n > 0
        THEN apiReturn(S, c1, d, Assembled(c.op), FALSE)
        ELSE apiReturn(S, c1, d, FanOutFallback(c.op), FALSE)

\* the Promise.all of getFeaturedContent / getDashboardStats settles: it is
\* fulfilled when all four listDocuments were answered, and rejected by the
\* first one that fails, n of the others having been answered by then
fanOutSettled(S, c, d, ok, n) ==
    LET c1 == [c EXCEPT !.answered = n, !.failed = ~ok]
    IN  IF ok
        THEN apiReturn(S, c1, d, Assembled(c.op), FALSE)
        ELSE apiReturn(S, c1, d, FanOutFallback(c.op), FALSE)

\* the _type that search gives the documents of a collection:
\* collectionKey.slice(0, -1)
TypeTag(collectionKey) == SubSeq(collectionKey, 1, Len(collectionKey) - 1)

\* response.documents.map(...) for an answer of n documents: each document
\* with its _type (from is the collection it was read from)
RECURSIVE searchResults(_, _)
searchResults(collectionKey, n) ==
    IF n <= 0 THEN <<>>
    ELSE <<[from |-> collectionKey, type |-> TypeTag(collectionKey)]>>
         \o searchResults(collectionKey, n - 1)

\* the array results after the loop over the collections: found holds, per
\* collection searched, the number of documents answered, or -1 for a
\* query that failed
RECURSIVE results(_)
results(found) ==
    IF found = <<>> THEN <<>>
    ELSE searchResults(Head(found)[1], Head(found)[2]) \o results(Tail(found))

\* results.slice(0, 10)
limitedResults(found) ==
    SubSeq(results(found), 1, Min(Len(results(found)), 10))

\* routePaths[type] in getSearchResultHTML
routePaths(type) ==
    CASE type = "opportunity" -> "opportunities"
      [] type = "companyProfile" -> "directory"
      [] type = "regulatoryUpdate" -> "regulatory"
      [] type = "article" -> "insights"
      [] OTHER -> "undefined"

\* the listDocuments of one collection of a search answered with n hits
searchSettled(S, c, d, ok, n) ==
    LET c1 == [c EXCEPT !.hits = IF ok THEN @ + n ELSE @,
                        !.failed = @ \/ ~ok,
                        !.found = Append(@, <<Head(c.todo),
                                              IF ok THEN n ELSE -1>>),
                        !.todo = Tail(@)]
    IN  IF c1.todo = <<>>
        THEN apiReturn(S, c1, d, SearchHits(Min(c1.hits, 10)), FALSE)
        ELSE apiAwait(S, c1)

remoteResponds(S, i, ok, flag, n) ==
    LET c == S.calls[i]
        d == CallerOf(S, c)
        S0 == [S EXCEPT !.calls = RemoveAt(@, i)]
    IN  CASE c.op = "list" -> listSettled(S0, c, d, ok, n)
          [] c.op = "getById" -> getByIdSettled(S0, c, d, ok, flag)
          [] c.op = "create" -> createSettled(S0, c, d, ok)
          [] c.op \in {"featured", "stats"} -> fanOutSettled(S0, c, d, ok, n)
          [] OTHER -> searchSettled(S0, c, d, ok, n)

\* what an answer to call c may hold: <<flag, n>>
Answers(S, c, ok) ==
    CASE c.op = "list" -> {<<FALSE, n>> : n \in c.rev0..S.db[c.coll]}
      [] c.op = "getById" ->
            IF c.stage = 1 /\ c.coll = "opportunities"
            THEN {<<TRUE, 0>>, <<FALSE, 0>>} ELSE {<<FALSE, 0>>}
      [] c.op = "create" -> {<<FALSE, 0>>}
      [] c.op \in {"featured", "stats"} ->
            IF ok THEN {<<FALSE, 4>>} ELSE {<<FALSE, n>> : n \in 0..3}
      [] OTHER -> {<<FALSE, 0>>, <<FALSE, 5>>}

-----------------------------------------------------------------------------
(* PipelineRouter.handleRoute up to `await handler(params)`, and further   *)
(* when the handler does not have to wait for the remote store.            *)

\* renderSearch up to its await
renderSearch(S, d) ==
    LET q == QueryGet(HashQuery(S.hash), "q")
        type == QueryGet(HashQuery(S.hash), "type")
    IN  IF IsBlank(q)
        THEN handleRouteEnd(S, d, [view |-> "search", page |-> d.handler,
                                   data |-> Null], NoOp)
        ELSE search(S, q, IF type # "" THEN <<type>> ELSE <<>>, d)

\* the handler of dispatch d runs up to its await
runHandler(S, d) ==
    LET info == HandlerInfo(d.handler)
    IN  CASE info.kind = "home" -> fanOut(S, "featured", d)
          [] info.kind = "list" -> getList(S, info.coll, ListFilters(d.handler), d)
          [] info.kind = "detail" ->
                getById(S, info.coll, ParamGet(d.params, "id"), d)
          [] info.kind = "throws" -> handleRouteCatch(S, d, NoOp)
          [] info.kind = "submit" ->
                apiAwait(S, NewCall(S, "create", info.coll, "", "", d))
          [] OTHER -> renderSearch(S, d)

\* handleRoute(), run as dispatch number id
handleRoute(S, id) ==
    LET route == S.hash                       \* getCurrentRoute()
        m == parseRoute(S.routes, route)
        S1 == showLoading(S)
        handler == RoutesGet(S.routes, m.path)
        d == [id |-> id, route |-> route, path |-> m.path,
              handler |-> handler, params |-> m.params, event |-> S.event]
    IN  IF handler # "undefined"
        THEN runHandler([S1 EXCEPT !.currentRoute = route,
                                   !.dispatches[id] = d], d)
        ELSE hideLoading(                     \* render404(), finally
             [S1 EXCEPT !.content = View404,
                        !.lastDispatch = [route |-> route, path |-> m.path,
                                          handler |-> handler, view |-> "404",
                                          res |-> Null, failed |-> FALSE,
                                          threw |-> FALSE, event |-> S.event,
                                          rejected |-> FALSE]])

FreeSlots(S) == {i \in DOMAIN S.dispatches : S.dispatches[i].handler = "undefined"}

InFlight(S) == {i \in DOMAIN S.dispatches : S.dispatches[i].handler # "undefined"}

-----------------------------------------------------------------------------
(* Inputs of the model.                                                    *)

\* the location fragments of the model
NavRoutes ==
    {"", "opportunities", "directory", "opportunities/42",
     "search?q=engineer", "foo"}

\* the filters objects of direct list calls
DirectFilters == {<<>>, <<Str("type", "Job")>>}

\* the collections direct calls are made on
DirectCollections == {"opportunities"}

\* the clock values of the model: the instants one millisecond before, at
\* and one millisecond after each multiple of the cache lifetime
Clock ==
    {t \in {b * cacheTimeout + a : b \in 0..MaxLong, a \in {-1, 0, 1}} : t >= 0}

-----------------------------------------------------------------------------
(* The state after construction.                                           *)

\* new AppwriteAPIService(), and the page before the router exists
Blank ==
    [now |-> 0,
     db |-> [c \in collections |-> 0],
     cache |-> clearCache(<<>>),
     calls |-> <<>>,
     lastOp |-> NoOp,
     hash |-> "",
     currentRoute |-> "null",
     content |-> ViewInitial,
     loader |-> FALSE,
     navActive |-> "none",
     title |-> "",
     dispatches |-> [i \in 1..(2 * MaxNav + 1) |-> NoDispatch],
     lastDispatch |-> NoDone,
     routes |-> routes,
     event |-> 0,
     raced |-> {}]

StartsAs(S) ==
    /\ now = S.now
    /\ db = S.db
    /\ cache = S.cache
    /\ calls = S.calls
    /\ lastOp = S.lastOp
    /\ hash = S.hash
    /\ currentRoute = S.currentRoute
    /\ content = S.content
    /\ loader = S.loader
    /\ navActive = S.navActive
    /\ title = S.title
    /\ dispatches = S.dispatches
    /\ lastDispatch = S.lastDispatch
    /\ raced = S.raced

SanityIdle ==
    /\ sanityCache = clearCache(<<>>)
    /\ sanityCalls = <<>>
    /\ sanityLast = NoOp

\* parseRoute before any call of it
NoParse == [path |-> "", params |-> <<>>, route |-> "", matched |-> FALSE]

\* the call addRoute(path, handler) on the table rs: was is the handler the
\* table held for path before the call
Registration(rs, path, handler) ==
    [path |-> path, handler |-> handler, was |-> RoutesGet(rs, path)]

\* addRoute before any call of it
NoRegistration == [path |-> "", handler |-> "undefined", was |-> "undefined"]

\* the route table is the one of setupRoutes, whose last call registered
\* the search page; parseRoute was not called
ParseIdle ==
    /\ routeTable = routes
    /\ requested = ""
    /\ parsed = NoParse
    /\ registered = Registration(<<>>, "search", "renderSearch")

\* new PipelineRouter(): init() ends with handleRoute() for the fragment
\* the page was opened with
Init ==
    /\ \E h \in NavRoutes : StartsAs(handleRoute([Blank EXCEPT !.hash = h], 1))
    /\ SanityIdle
    /\ ParseIdle
    /\ inputs = 0

\* the CMS client alone
InitApi == StartsAs(Blank) /\ SanityIdle /\ ParseIdle /\ inputs = 0

-----------------------------------------------------------------------------
(* Actions.                                                                *)

\* the lowest free dispatch number
NextSlot(S) == CHOOSE i \in FreeSlots(S) : \A j \in FreeSlots(S) : i <= j

\* the fragment changes (navigate(route), a link, the address bar): the
\* hashchange listener runs handleRoute
Navigate(r) ==
    /\ r # hash
    /\ inputs < MaxNav
    /\ inputs' = inputs + 1
    /\ UNCHANGED parseVars
    /\ LET S == [Cur EXCEPT !.hash = r, !.event = inputs + 1,
                            !.raced = {dispatches[i].route : i \in InFlight(Cur)}]
       IN  Becomes(handleRoute(S, NextSlot(S)))
    /\ UNCHANGED sanityVars

\* the back or forward button leads to fragment r: the popstate listener
\* and the hashchange listener each run handleRoute
Traverse(r) ==
    /\ r # hash
    /\ inputs < MaxNav
    /\ inputs' = inputs + 1
    /\ UNCHANGED parseVars
    /\ LET S == [Cur EXCEPT !.hash = r, !.event = inputs + 1,
                            !.raced = {dispatches[i].route : i \in InFlight(Cur)}]
           S1 == handleRoute(S, NextSlot(S))
       IN  Becomes(handleRoute(S1, NextSlot(S1)))
    /\ UNCHANGED sanityVars

\* the remote store answers a request
RemoteOk ==
    /\ \E i \in 1..Len(calls) : \E a \in Answers(Cur, calls[i], TRUE) :
          Becomes(remoteResponds(Cur, i, TRUE, a[1], a[2]))
    /\ UNCHANGED <<sanityVars, inputs, parseVars>>

\* a request fails (network error, error status)
RemoteFail ==
    /\ \E i \in 1..Len(calls) : \E a \in Answers(Cur, calls[i], FALSE) :
          /\ a[1] = FALSE
          /\ Becomes(remoteResponds(Cur, i, FALSE, a[1], a[2]))
    /\ UNCHANGED <<sanityVars, inputs, parseVars>>

\* time passes
Tick ==
    /\ \E dt \in {1, cacheTimeout - 1} :
          /\ now + dt \in Clock
          /\ now' = now + dt
    /\ UNCHANGED <<db, cache, calls, lastOp>>
    /\ UNCHANGED routerVars
    /\ UNCHANGED <<sanityVars, inputs, parseVars>>

\* a long time passes: every cache entry goes stale
Later ==
    /\ now + cacheTimeout <= MaxLong * cacheTimeout
    /\ now' = now + cacheTimeout
    /\ UNCHANGED <<db, cache, calls, lastOp>>
    /\ UNCHANGED routerVars
    /\ UNCHANGED <<sanityVars, inputs, parseVars>>

\* some code calls a list operation of the client
CallList ==
    /\ inputs < MaxIssued
    /\ inputs' = inputs + 1
    /\ UNCHANGED parseVars
    /\ \E coll \in DirectCollections : \E filters \in DirectFilters :
          Becomes(getList(Cur, coll, filters, NoDispatch))
    /\ UNCHANGED sanityVars

\* some code calls a by-id operation of the client
CallGetById ==
    /\ inputs < MaxIssued
    /\ inputs' = inputs + 1
    /\ UNCHANGED parseVars
    /\ \E coll \in DirectCollections :
          Becomes(getById(Cur, coll, "42", NoDispatch))
    /\ UNCHANGED sanityVars

\* some code calls a create operation of the client
CallCreate ==
    /\ inputs < MaxIssued
    /\ inputs' = inputs + 1
    /\ UNCHANGED parseVars
    /\ \E coll \in DirectCollections : Becomes(create(Cur, coll))
    /\ UNCHANGED sanityVars

\* some code calls getFeaturedContent
CallFeatured ==
    /\ inputs < MaxIssued
    /\ inputs' = inputs + 1
    /\ UNCHANGED parseVars
    /\ Becomes(fanOut(Cur, "featured", NoDispatch))
    /\ UNCHANGED sanityVars

\* some code calls getDashboardStats
CallStats ==
    /\ inputs < MaxIssued
    /\ inputs' = inputs + 1
    /\ UNCHANGED parseVars
    /\ Becomes(fanOut(Cur, "stats", NoDispatch))
    /\ UNCHANGED sanityVars

-----------------------------------------------------------------------------
(* The Sanity client (SanityAPIService): every read goes through          *)
(* fetchWithCache(query), keyed by the GROQ query text.                    *)

sanityCacheTimeout == 5 * 60 * 1000

\* document types the client is asked for
SanityTypes == {"opportunity", "article"}

SanityCollection(type) ==
    IF type = "opportunity" THEN "opportunities" ELSE "articles"

\* the query text of getOpportunities({}) / getOpportunityById(id) and
\* their siblings, without the projection
SanityQuery(type, id) ==
    IF id = ""
    THEN "*[_type == \"" \o type \o "\"] | order(publishedAt desc) [0...20]"
    ELSE "*[_type == \"" \o type \o "\" && _id == \"" \o id \o "\"][0]"

SanityCacheKey(query) == query \o "_" \o "{}"

\* getFallbackData(query): a list of mock records chosen by the words of
\* the query, the empty list when none is recognised
getFallbackData(query) ==
    IF Includes(query, "opportunity") THEN MockPage("opportunities")
    ELSE IF Includes(query, "companyProfile") THEN MockPage("companies")
    ELSE IF Includes(query, "regulatoryUpdate") THEN MockPage("regulatory")
    ELSE EmptyList

SanityReturn(c, res, remote, failed) ==
    [NoOp EXCEPT !.op = c.op, !.coll = c.coll, !.key = c.key, !.res = res,
                 !.remote = remote, !.failed = failed, !.t0 = c.t0,
                 !.entry0 = c.entry0, !.q = c.q, !.prev = c.prev]

\* fetchWithCache(query) up to the cache test, called by operation op; q is
\* the search term when op is search
SanityFetchQuery(op, coll, query, q) ==
    LET key    == SanityCacheKey(query)
        cached == CacheGet(sanityCache, key)
        c      == [op |-> op, coll |-> coll, query |-> query,
                   key |-> key, t0 |-> now, entry0 |-> cached, q |-> q,
                   prev |-> PrevOf(sanityLast)]
    IN  IF CacheHas(sanityCache, key)
           /\ now - cached.timestamp < sanityCacheTimeout
        THEN /\ sanityLast' = SanityReturn(c, cached.data, 0, FALSE)
             /\ UNCHANGED <<sanityCache, sanityCalls>>
        ELSE /\ sanityCalls' = Append(sanityCalls, c)
             /\ UNCHANGED <<sanityCache, sanityLast>>

\* fetchWithCache up to the cache test: a fresh entry is returned, else
\* the request is sent
SanityFetch(op, type, id) ==
    SanityFetchQuery(op, SanityCollection(type), SanityQuery(type, id), "")

\* some code calls sanityAPI.getOpportunities() / getArticles()
SanityGetList ==
    /\ inputs < MaxIssued
    /\ inputs' = inputs + 1
    /\ UNCHANGED parseVars
    /\ \E type \in SanityTypes : SanityFetch("list", type, "")
    /\ UNCHANGED <<apiVars, routerVars>>

\* some code calls sanityAPI.getOpportunityById("42") / getArticleById("42")
SanityGetById ==
    /\ inputs < MaxIssued
    /\ inputs' = inputs + 1
    /\ UNCHANGED parseVars
    /\ \E type \in SanityTypes : SanityFetch("getById", type, "42")
    /\ UNCHANGED <<apiVars, routerVars>>

\* the Sanity API answers: the result is cached and returned; a by-id
\* query ends in [0], which is null when no document matches
SanityOk ==
    /\ \E i \in 1..Len(sanityCalls) :
          LET c == sanityCalls[i]
          IN  \E data \in CASE c.op = "list" ->
                                {RemotePage(c.coll, c.query, 0)}
                            [] c.op = "getById" ->
                                {RemoteRecord(c.coll, c.query, TRUE), Null}
                            [] OTHER -> {SearchHits(0), SearchHits(5)} :
                /\ sanityCache' = setCache(sanityCache, c.key, data, now)
                /\ sanityCalls' = RemoveAt(sanityCalls, i)
                /\ sanityLast' = SanityReturn(c, data, 1, FALSE)
    /\ UNCHANGED <<apiVars, routerVars, inputs, parseVars>>

\* the fetch fails or the status is not ok: the entry read at the start,
\* expired or not, is returned when there was one, else getFallbackData
SanityFail ==
    /\ \E i \in 1..Len(sanityCalls) :
          LET c == sanityCalls[i]
          IN  /\ sanityCalls' = RemoveAt(sanityCalls, i)
              /\ sanityLast' =
                    SanityReturn(c, IF c.entry0 # NoEntry THEN c.entry0.data
                                    ELSE getFallbackData(c.query), 1, TRUE)
    /\ UNCHANGED <<apiVars, routerVars, sanityCache, inputs, parseVars>>

Next ==
    \/ \E r \in NavRoutes : Navigate(r)
    \/ \E r \in NavRoutes : Traverse(r)
    \/ RemoteOk
    \/ RemoteFail
    \/ Later

Spec == Init /\ [][Next]_vars

NextApi == CallList \/ CallGetById \/ CallCreate \/ RemoteOk \/ RemoteFail \/ Tick

SpecApi == InitApi /\ [][NextApi]_vars

NextSanity == SanityGetList \/ SanityGetById \/ SanityOk \/ SanityFail \/ Tick

SpecSanity == InitApi /\ [][NextSanity]_vars

NextFan == CallFeatured \/ CallStats \/ RemoteOk \/ RemoteFail \/ Tick

SpecFan == InitApi /\ [][NextFan]_vars

-----------------------------------------------------------------------------
(* The list and create operations of all four collections.                 *)

\* some code calls getOpportunities, getCompanies, getRegulatoryUpdates or
\* getArticles
CallListOf ==
    /\ inputs < MaxIssued
    /\ inputs' = inputs + 1
    /\ \E coll \in collections : \E filters \in DirectFilters :
          Becomes(getList(Cur, coll, filters, NoDispatch))
    /\ UNCHANGED <<sanityVars, parseVars>>

\* some code calls createOpportunity, createCompany,
\* createRegulatoryUpdate or createArticle
CallCreateOf ==
    /\ inputs < MaxIssued
    /\ inputs' = inputs + 1
    /\ \E coll \in collections : Becomes(create(Cur, coll))
    /\ UNCHANGED <<sanityVars, parseVars>>

NextColl == CallListOf \/ CallCreateOf \/ RemoteOk \/ RemoteFail

SpecColl == InitApi /\ [][NextColl]_vars

-----------------------------------------------------------------------------
(* The dispatcher with two more routes registered through addRoute: a      *)
(* handler that throws before it awaits anything, and a handler that       *)
(* awaits createOpportunity outside any try block and then renders.        *)

\* this.routes after router.addRoute("boom", failingHandler) and
\* router.addRoute("submit", submitHandler)
DispatchTable ==
    addRoute(addRoute(routes, "boom", "failingHandler"),
             "submit", "submitHandler")

\* the location fragments of this specification
DispatchRoutes == {"directory", "opportunities/42", "boom", "submit"}

InitDispatch ==
    /\ \E h \in DispatchRoutes :
          StartsAs(handleRoute([Blank EXCEPT !.hash = h,
                                             !.routes = DispatchTable], 1))
    /\ SanityIdle
    /\ routeTable = DispatchTable
    /\ requested = ""
    /\ parsed = NoParse
    /\ registered = Registration(routes, "submit", "submitHandler")
    /\ inputs = 0

NextDispatch ==
    \/ \E r \in DispatchRoutes : Navigate(r)
    \/ \E r \in DispatchRoutes : Traverse(r)
    \/ RemoteOk
    \/ RemoteFail

SpecDispatch == InitDispatch /\ [][NextDispatch]_vars

\* every request is answered or fails in the end: the weak fairness
\* condition WF_vars(RemoteOk \/ RemoteFail) written out, the action being
\* enabled exactly when a request is pending
AnswersArrive ==
    []<>(calls = <<>>) \/ []<><<RemoteOk \/ RemoteFail>>_vars

SpecDispatchFair == SpecDispatch /\ AnswersArrive

-----------------------------------------------------------------------------
(* Invalidation: reads, creates and clearCacheByCollection on two          *)
(* collections, in sequences of up to MaxCacheCalls calls.                 *)

MaxCacheCalls == 3

\* the collections of these calls, and the filters objects of the list
\* calls: the second one names a collection in a filter value
InvalidateCollections == {"opportunities", "companies"}
InvalidateFilters == {<<>>, <<Str("type", "companies")>>}

\* some code calls getOpportunities(filters) or getCompanies(filters)
IssueList ==
    /\ inputs < MaxCacheCalls
    /\ inputs' = inputs + 1
    /\ \E coll \in InvalidateCollections : \E filters \in InvalidateFilters :
          Becomes(getList(Cur, coll, filters, NoDispatch))
    /\ UNCHANGED <<sanityVars, parseVars>>

\* some code calls getOpportunityById("42")
IssueGetById ==
    /\ inputs < MaxCacheCalls
    /\ inputs' = inputs + 1
    /\ Becomes(getById(Cur, "opportunities", "42", NoDispatch))
    /\ UNCHANGED <<sanityVars, parseVars>>

\* some code calls createOpportunity or createCompany
IssueCreate ==
    /\ inputs < MaxCacheCalls
    /\ inputs' = inputs + 1
    /\ \E coll \in InvalidateCollections : Becomes(create(Cur, coll))
    /\ UNCHANGED <<sanityVars, parseVars>>

\* some code calls clearCacheByCollection(collection)
IssueClearByCollection ==
    /\ inputs < MaxCacheCalls
    /\ inputs' = inputs + 1
    /\ \E collection \in InvalidateCollections :
          Becomes([Cur EXCEPT
                      !.cache = clearCacheByCollection(@, collection),
                      !.lastOp = [NoOp EXCEPT !.op = "clearCacheByCollection",
                                              !.coll = collection,
                                              !.t0 = now,
                                              !.prev = PrevOf(lastOp)]])
    /\ UNCHANGED <<sanityVars, parseVars>>

NextInvalidate ==
    \/ IssueList
    \/ IssueGetById
    \/ IssueCreate
    \/ IssueClearByCollection
    \/ RemoteOk
    \/ RemoteFail

SpecInvalidate == InitApi /\ [][NextInvalidate]_vars

-----------------------------------------------------------------------------
(* Navigation away from a list page whose fetch is unresolved, followed by *)
(* a list call with the filters the list handler uses.                     *)

\* the list handlers whose call is repeated
RepeatedHandlers == {"renderOpportunities", "renderDirectory"}

\* the fragments of these navigations
SupersedeRoutes == {"opportunities", "directory"}

\* some code calls the list operation of a list handler with the filters
\* the handler passes
CallListAsHandler ==
    /\ inputs < MaxIssued
    /\ inputs' = inputs + 1
    /\ \E handler \in RepeatedHandlers :
          Becomes(getList(Cur, HandlerInfo(handler).coll, ListFilters(handler),
                          NoDispatch))
    /\ UNCHANGED <<sanityVars, parseVars>>

\* the page is opened on one of these fragments
InitSupersede ==
    /\ \E h \in SupersedeRoutes : StartsAs(handleRoute([Blank EXCEPT !.hash = h], 1))
    /\ SanityIdle
    /\ ParseIdle
    /\ inputs = 0

NextSupersede ==
    \/ \E r \in SupersedeRoutes : Navigate(r)
    \/ CallListAsHandler
    \/ RemoteOk
    \/ RemoteFail
    \/ Later

SpecSupersede == InitSupersede /\ [][NextSupersede]_vars

-----------------------------------------------------------------------------
(* The filter selects and the pagination links of the list pages.          *)

\* encodeURIComponent(s) for strings of letters, digits and spaces
RECURSIVE encodeURIComponent(_)
encodeURIComponent(s) ==
    IF s = "" THEN ""
    ELSE (IF SubSeq(s, 1, 1) = " " THEN "%20" ELSE SubSeq(s, 1, 1))
         \o encodeURIComponent(SubSeq(s, 2, Len(s)))

\* navigate(route): the fragment is assigned when it differs from the
\* current one, and the hashchange listener runs handleRoute
navigate(S, route) ==
    IF route # S.hash
    THEN LET S1 == [S EXCEPT !.hash = route,
                             !.raced = {S.dispatches[i].route : i \in InFlight(S)}]
         IN  handleRoute(S1, NextSlot(S1))
    ELSE S

\* the route handleFilterChange navigates to
FilterRoute(current, filterKey, filterValue) ==
    LET basePath == Split(current, "?")[1]
    IN  IF filterValue # ""
        THEN basePath \o "?" \o filterKey \o "=" \o encodeURIComponent(filterValue)
        ELSE basePath

\* urlParams.set("page", page) followed by urlParams.toString(), for a query
\* string of the form k=v&k=v: the first page entry is replaced and later
\* ones dropped, or the entry is appended
RECURSIVE JoinAmp(_)
JoinAmp(pairs) ==
    IF pairs = <<>> THEN ""
    ELSE pairs[1] \o (IF Len(pairs) > 1 THEN "&" ELSE "") \o JoinAmp(Tail(pairs))

SetPage(queryString, page) ==
    LET pairs == IF queryString = "" THEN <<>> ELSE Split(queryString, "&")
        isPage(kv) == Split(kv, "=")[1] = "page"
        at == {i \in 1..Len(pairs) : isPage(pairs[i])}
        entry == "page=" \o ToString(page)
    IN  IF at = {} THEN JoinAmp(Append(pairs, entry))
        ELSE LET first == CHOOSE i \in at : \A j \in at : i <= j
             IN  JoinAmp([i \in 1..Len(pairs) |->
                             IF i = first THEN entry ELSE pairs[i]])

\* the route goToPage navigates to
PageRoute(current, page) ==
    LET path == Split(current, "?")[1]
    IN  path \o "?" \o SetPage(HashQuery(current), page)

\* the list sections of the model with the key of their filter select, and
\* the values offered: "" is the option "All ...s"
FilterSections == {"opportunities", "directory", "regulatory", "insights"}
FilterKey(section) ==
    CASE section = "opportunities" -> "type"
      [] section = "directory" -> "sector"
      [] section = "regulatory" -> "source"
      [] OTHER -> "category"
FilterOptions(section) ==
    CASE section = "opportunities" -> {"", "Job", "Tender"}
      [] section = "directory" -> {"", "Upstream"}
      [] section = "regulatory" -> {"", "NUPRC"}
      [] OTHER -> {"", "Market Analysis"}

\* the page numbers of the model
Pages == {1, 2}

\* the list page of a section is shown, with its filter select
OnListPage ==
    /\ content.view = "list"
    /\ Split(hash, "?")[1] \in FilterSections

\* the user picks an option of the filter select: handleFilterChange
HandleFilterChange ==
    /\ OnListPage
    /\ inputs < MaxNav
    /\ inputs' = inputs + 1
    /\ \E filterValue \in FilterOptions(Split(hash, "?")[1]) :
          LET S == [Cur EXCEPT !.event = inputs + 1]
          IN  Becomes(navigate(S, FilterRoute(hash,
                                   FilterKey(Split(hash, "?")[1]), filterValue)))
    /\ UNCHANGED <<sanityVars, parseVars>>

\* goToPage(page) is called
GoToPage ==
    /\ OnListPage
    /\ inputs < MaxNav
    /\ inputs' = inputs + 1
    /\ \E page \in Pages :
          LET S == [Cur EXCEPT !.event = inputs + 1]
          IN  Becomes(navigate(S, PageRoute(hash, page)))
    /\ UNCHANGED <<sanityVars, parseVars>>

\* the page is opened on a list section
InitFilter ==
    /\ \E h \in FilterSections : StartsAs(handleRoute([Blank EXCEPT !.hash = h], 1))
    /\ SanityIdle
    /\ ParseIdle
    /\ inputs = 0

NextFilter == HandleFilterChange \/ GoToPage \/ RemoteOk \/ RemoteFail

SpecFilter == InitFilter /\ [][NextFilter]_vars

-----------------------------------------------------------------------------
(* The read operations of both clients while the remote stores fail and    *)
(* recover.                                                                *)

NextFallback ==
    \/ CallList
    \/ CallGetById
    \/ SanityGetList
    \/ SanityGetById
    \/ RemoteOk
    \/ RemoteFail
    \/ SanityOk
    \/ SanityFail

SpecFallback == InitApi /\ [][NextFallback]_vars

-----------------------------------------------------------------------------
(* The cache of the Appwrite client under reads, writes, the passing of    *)
(* time and the two clearing operations.                                   *)

\* some code calls appwriteAPI.clearCache()
CallClearCache ==
    /\ inputs < MaxIssued
    /\ inputs' = inputs + 1
    /\ Becomes([Cur EXCEPT !.cache = clearCache(@),
                           !.lastOp = [NoOp EXCEPT !.op = "clearCache",
                                                   !.t0 = now,
                                                   !.prev = PrevOf(lastOp)]])
    /\ UNCHANGED <<sanityVars, parseVars>>

\* some code calls appwriteAPI.clearCacheByCollection(collection)
CallClearCacheByCollection ==
    /\ inputs < MaxIssued
    /\ inputs' = inputs + 1
    /\ \E collection \in collections :
          Becomes([Cur EXCEPT
                      !.cache = clearCacheByCollection(@, collection),
                      !.lastOp = [NoOp EXCEPT !.op = "clearCacheByCollection",
                                              !.coll = collection,
                                              !.t0 = now,
                                              !.prev = PrevOf(lastOp)]])
    /\ UNCHANGED <<sanityVars, parseVars>>

NextCache ==
    \/ CallList
    \/ CallGetById
    \/ CallCreate
    \/ CallClearCache
    \/ CallClearCacheByCollection
    \/ RemoteOk
    \/ RemoteFail
    \/ Tick

SpecCache == InitApi /\ [][NextCache]_vars

-----------------------------------------------------------------------------
(* search of both clients.                                                 *)

\* the terms searched for, the types lists of the Appwrite client and of
\* the Sanity client
SearchTerms == {"", "   ", "engineer"}
SearchTypes == {<<>>, <<"opportunities", "companies">>, <<"people">>}
SanitySearchTypes == {<<>>, <<"opportunity", "article">>}

\* some code calls appwriteAPI.search(searchTerm, types)
CallSearch ==
    /\ inputs < MaxIssued
    /\ inputs' = inputs + 1
    /\ \E searchTerm \in SearchTerms : \E types \in SearchTypes :
          Becomes(search(Cur, searchTerm, types, NoDispatch))
    /\ UNCHANGED <<sanityVars, parseVars>>

\* types.map(t => `"${t}"`).join(", ")
RECURSIVE JoinQuoted(_)
JoinQuoted(types) ==
    IF types = <<>> THEN ""
    ELSE "\"" \o Head(types) \o "\""
         \o (IF Len(types) > 1 THEN ", " ELSE "") \o JoinQuoted(Tail(types))

\* the query text of SanityAPIService.search, without the projection
SanitySearchQuery(searchTerm, types) ==
    LET typeFilters == IF Len(types) > 0
                       THEN " && _type in [" \o JoinQuoted(types) \o "]"
                       ELSE ""
    IN  "*[" \o typeFilters \o " && (title match \"*" \o searchTerm
        \o "*\" || description match \"*" \o searchTerm
        \o "*\" || summary match \"*" \o searchTerm
        \o "*\" || companyName match \"*" \o searchTerm
        \o "*\")] | order(_score desc) [0...10]"

\* some code calls sanityAPI.search(searchTerm, types): a blank term
\* returns [] at once, any other goes through fetchWithCache as one query
SanitySearch ==
    /\ inputs < MaxIssued
    /\ inputs' = inputs + 1
    /\ \E searchTerm \in SearchTerms : \E types \in SanitySearchTypes :
          IF IsBlank(searchTerm)
          THEN /\ sanityLast' = [NoOp EXCEPT !.op = "search", !.q = searchTerm,
                                             !.res = EmptyList, !.t0 = now,
                                             !.prev = PrevOf(sanityLast)]
               /\ UNCHANGED <<sanityCache, sanityCalls>>
          ELSE SanityFetchQuery("search", "",
                                SanitySearchQuery(searchTerm, types), searchTerm)
    /\ UNCHANGED <<apiVars, routerVars, parseVars>>

NextSearch ==
    \/ CallSearch
    \/ SanitySearch
    \/ RemoteOk
    \/ RemoteFail
    \/ SanityOk
    \/ SanityFail

SpecSearch == InitApi /\ [][NextSearch]_vars

-----------------------------------------------------------------------------
(* parseRoute on route tables built with addRoute.                         *)

\* at most MaxRoutes patterns are registered
MaxRoutes == 3

\* the patterns and handlers given to addRoute, the routes given to
\* parseRoute
Patterns ==
    {"", "opportunities", "opportunities/:id", "opportunities/featured",
     ":section/:id", ":kind/featured"}
Handlers == {"renderOpportunities", "renderOpportunityDetail"}
Requests ==
    {"", "opportunities", "opportunities/42", "opportunities/featured",
     "directory/42", "opportunities/42/edit", "opportunities/"}

\* a router with an empty route table
InitParse ==
    /\ StartsAs(Blank)
    /\ SanityIdle
    /\ inputs = 0
    /\ routeTable = <<>>
    /\ requested = ""
    /\ parsed = NoParse
    /\ registered = NoRegistration

\* addRoute(path, handler)
AddRoute ==
    /\ Len(routeTable) < MaxRoutes
    /\ \E path \in Patterns : \E handler \in Handlers :
          /\ routeTable' = addRoute(routeTable, path, handler)
          /\ registered' = Registration(routeTable, path, handler)
    /\ parsed' = NoParse
    /\ UNCHANGED <<apiVars, routerVars, sanityVars, inputs, requested>>

\* parseRoute(route)
Resolve ==
    /\ \E route \in Requests :
          /\ requested' = route
          /\ parsed' = parseRoute(routeTable, route)
    /\ UNCHANGED <<apiVars, routerVars, sanityVars, inputs, routeTable,
                   registered>>

NextParse == AddRoute \/ Resolve

SpecParse == InitParse /\ [][NextParse]_vars

-----------------------------------------------------------------------------
(* Properties of the dispatcher (checked under Spec).                      *)

\* the dispatches that have not finished
Running == {dispatches[i] : i \in InFlight(Cur)}

\* route matches none of the registered patterns
Unmatched(route) ==
    \A i \in 1..Len(routes) : ~PatternMatches(routes, i, Split(route, "/"))

\* C1: when the fragment went from `opportunities` to `directory` while the
\* fetch of the opportunities page was unresolved, then, whatever the order
\* in which the two fetches resolve, once both dispatches have finished the
\* content region shows the directory page.
C1_DirectoryShownAfterRace ==
    (hash = "directory" /\ "opportunities" \in raced /\ Running = {})
        => content.page = "renderDirectory"

\* C2: a path that matches no registered pattern gets the not-found view
\* and no route handler is invoked for it.
C2_UnmatchedPathRenders404 ==
    /\ \A d \in Running : ~Unmatched(d.route)
    /\ (lastDispatch.view # "none" /\ Unmatched(lastDispatch.route))
          => (lastDispatch.view = "404" /\ lastDispatch.handler = "undefined")

\* the handler a fragment `path?query` with a registered path should reach
QueryRouteHandled(route, handler) ==
    LET parts == Split(route, "?")
    IN  (Len(parts) >= 2 /\ RoutesGet(routes, parts[1]) # "undefined")
            => handler = RoutesGet(routes, parts[1])

\* C3: a fragment made of a registered path and a query string is
\* dispatched to the handler registered for the path; `search?q=engineer`
\* reaches the search handler and ends in the search results.
C3_QueryStringReachesHandler ==
    /\ \A d \in Running : QueryRouteHandled(d.route, d.handler)
    /\ lastDispatch.view # "none"
          => QueryRouteHandled(lastDispatch.route, lastDispatch.handler)
    /\ (lastDispatch.view # "none" /\ lastDispatch.route = "search?q=engineer")
          => (lastDispatch.handler = "renderSearch"
              /\ lastDispatch.view = "results")

\* C8: a detail handler renders the not-found view exactly when getById
\* returned the absent marker, and the error view only when getById threw
\* or rendering the record threw; getById does not throw, so a dispatch
\* whose remote call failed ends in the not-found view.
C8_DetailNotFoundIffAbsent ==
    LET l == lastDispatch
    IN  HandlerInfo(l.handler).kind = "detail" =>
          /\ (l.view = "404") <=> (~l.threw /\ l.res.kind = "null")
          /\ (l.view = "error")
                => (l.threw \/ (l.res.kind # "null" /\ ~l.res.company))
          /\ ~l.threw
          /\ l.failed => (l.view = "404" /\ content = View404)

\* `opportunities/42` was dispatched, the remote call failed, and the
\* not-found view is in the content region
C8_Witness ==
    /\ lastDispatch.route = "opportunities/42"
    /\ lastDispatch.handler = "renderOpportunityDetail"
    /\ lastDispatch.failed
    /\ lastDispatch.view = "404"
    /\ content = View404

-----------------------------------------------------------------------------
(* Properties of the Appwrite client (checked under SpecApi and SpecFan).  *)

\* the last call returned is a list call and the call that returned before
\* it was issued is a list call with the same key, issued less than five
\* minutes earlier
TwoListCalls ==
    /\ lastOp.op = "list"
    /\ lastOp.prev.op = "list"
    /\ lastOp.prev.key = lastOp.key
    /\ lastOp.t0 - lastOp.prev.t0 < 300000

\* C4 as stated: two consecutive list calls with the same collection and
\* filters, the second within the TTL window of the first, return the same
\* result and cause exactly one remote query in total.
C4_TwoCallsOneRemoteQuery ==
    TwoListCalls => /\ lastOp.res = lastOp.prev.res
                    /\ lastOp.prev.remote + lastOp.remote = 1

\* C4 amended: the same, for a first call that queried the remote store
\* and succeeded.  The second call then never reaches the remote store.
C4_TwoCallsOneRemoteQueryAfterSuccess ==
    /\ (TwoListCalls /\ lastOp.prev.remote = 1 /\ ~lastOp.prev.failed)
          => /\ lastOp.res = lastOp.prev.res
             /\ lastOp.prev.remote + lastOp.remote = 1
    /\ \A i \in 1..Len(calls) :
          LET c == calls[i]
          IN  ~(/\ c.op = "list"
                /\ c.prev.op = "list"
                /\ c.prev.key = c.key
                /\ c.t0 - c.prev.t0 < 300000
                /\ c.prev.remote = 1
                /\ ~c.prev.failed)

\* a second call, made later than the first, was answered from
\* the page the first one fetched
C4_Witness ==
    /\ TwoListCalls
    /\ lastOp.prev.remote = 1
    /\ ~lastOp.prev.failed
    /\ lastOp.t0 > lastOp.prev.t0
    /\ lastOp.remote = 0
    /\ lastOp.res = lastOp.prev.res

\* C5: after a successful create on a collection no cache entry that holds
\* data of that collection, list page or by-id record, remains.
C5_CreateLeavesNoEntryOfCollection ==
    (lastOp.op = "create" /\ ~lastOp.threw)
        => \A k \in DOMAIN cache : cache[k].data.coll # lastOp.coll

\* the entry a call found is fresh at the time of the call
FoundFresh(entry, t) ==
    entry # NoEntry /\ t - entry.timestamp < 300000

\* C6: a cached read whose entry satisfies now - timestamp < 5 minutes is
\* served from the cache with no remote call; one made when the entry is
\* five minutes old or older (or absent) fetches from the remote store.
C6_FreshServedStaleRefetched ==
    /\ (lastOp.op \in {"list", "getById"} /\ lastOp.key # "")
          => IF FoundFresh(lastOp.entry0, lastOp.t0)
             THEN /\ lastOp.remote = 0
                  /\ lastOp.res = lastOp.entry0.data
             ELSE lastOp.remote >= 1
    /\ \A i \in 1..Len(calls) :
          (calls[i].op \in {"list", "getById"} /\ calls[i].key # "")
              => (~FoundFresh(calls[i].entry0, calls[i].t0)
                  /\ calls[i].remote >= 1)

\* a list call made exactly five minutes after the entry was written went
\* to the remote store
C6_Witness ==
    /\ lastOp.op = "list"
    /\ lastOp.entry0 # NoEntry
    /\ lastOp.t0 - lastOp.entry0.timestamp = 300000
    /\ lastOp.remote = 1

\* C7: getById never throws, and when its remote call fails it returns the
\* absent marker, not a record and not a list of records: in the Appwrite
\* client and in the Sanity client.
C7_GetByIdAbsentOnFailure ==
    /\ lastOp.op = "getById"
          => (~lastOp.threw /\ (lastOp.failed => lastOp.res = Null))
    /\ sanityLast.op = "getById"
          => (~sanityLast.threw /\ (sanityLast.failed => sanityLast.res = Null))

\* C9: when one of the four requests of getFeaturedContent or
\* getDashboardStats fails, the result is exactly the static fallback
\* summary, with nothing of the answers that arrived; the operation never
\* throws.
C9_FanOutFallbackOnAnyFailure ==
    lastOp.op \in {"featured", "stats"} =>
        /\ ~lastOp.threw
        /\ lastOp.failed
              => /\ lastOp.res = Summary("mock", lastOp.op)
                 /\ lastOp.res = FanOutFallback(lastOp.op)

\* getFeaturedContent returned after three requests were answered and the
\* fourth failed
C9_Witness ==
    /\ lastOp.op = "featured"
    /\ lastOp.failed
    /\ lastOp.answered = 3
    /\ lastOp.res = getMockFeaturedContent

\* C10: when the remote call of a list or getById fails and the key had a
\* stale entry, the stale data is returned; static fallback data is
\* returned only when the key had no entry.
C10_StaleEntryReturnedOnFailure ==
    (lastOp.op \in {"list", "getById"} /\ lastOp.failed)
        => /\ lastOp.entry0 # NoEntry => lastOp.res = lastOp.entry0.data
           /\ lastOp.res.src = "mock" => lastOp.entry0 = NoEntry

-----------------------------------------------------------------------------
(* Properties of the list and create operations (checked under SpecColl).  *)

\* C11: a list call never throws; when its remote query failed it returns
\* the static example records of its own collection.
C11_ListFallsBackToMock ==
    lastOp.op = "list" =>
        /\ ~lastOp.threw
        /\ lastOp.failed => /\ lastOp.res.src = "mock"
                            /\ lastOp.res.kind = "page"
                            /\ lastOp.res.coll = lastOp.coll

\* getArticles returned the example articles after its query failed
C11_Witness ==
    /\ lastOp.op = "list"
    /\ lastOp.coll = "articles"
    /\ lastOp.failed
    /\ lastOp.res = getMockArticles

\* C18: a create whose remote write failed throws that error to its caller
\* and returns nothing; a create throws only when the write failed.
C18_FailedCreateRethrows ==
    lastOp.op = "create" =>
        /\ lastOp.failed => (lastOp.threw /\ lastOp.res = ErrorValue)
        /\ lastOp.threw => lastOp.failed

\* createArticle threw after createDocument failed; nothing was written
C18_Witness ==
    /\ lastOp.op = "create"
    /\ lastOp.coll = "articles"
    /\ lastOp.failed
    /\ lastOp.threw
    /\ db["articles"] = 0

-----------------------------------------------------------------------------
(* Properties of parseRoute (checked under SpecParse).                     *)

\* pattern and route have the same number of segments and every literal
\* segment of the pattern equals the segment of the route at its position
SameShape(pattern, route) ==
    LET pat == Split(pattern, "/")
        parts == Split(route, "/")
    IN  /\ Len(pat) = Len(parts)
        /\ \A k \in 1..Len(pat) : StartsWith(pat[k], ":") \/ pat[k] = parts[k]

\* C12: parseRoute matches a route to a registered pattern only if both
\* have the same number of segments and every literal segment of the
\* pattern equals the segment of the route at the same position.
C12_MatchNeedsSameShape ==
    parsed.matched =>
        /\ \E i \in 1..Len(routeTable) : routeTable[i].path = parsed.path
        /\ Len(Split(parsed.path, "/")) = Len(Split(requested, "/"))
        /\ SameShape(parsed.path, requested)

\* `opportunities/42` was matched to `opportunities/:id` in a table that
\* also holds the one-segment pattern `opportunities`
C12_Witness ==
    /\ parsed.matched
    /\ requested = "opportunities/42"
    /\ parsed.path = "opportunities/:id"
    /\ \E i \in 1..Len(routeTable) : routeTable[i].path = "opportunities"

\* C13: when several registered patterns match a route, parseRoute returns
\* the one registered first, and the parameters are those of that pattern:
\* one binding per ':' segment, of its name to the segment at its position.
C13_FirstRegisteredWins ==
    parsed.matched =>
        LET pat == Split(parsed.path, "/")
            parts == Split(requested, "/")
        IN  /\ \A i, j \in 1..Len(routeTable) :
                  (i < j /\ routeTable[j].path = parsed.path)
                      => ~SameShape(routeTable[i].path, requested)
            /\ Len(parsed.params)
                  = Cardinality({k \in 1..Len(pat) : StartsWith(pat[k], ":")})
            /\ \A n \in 1..Len(parsed.params) :
                  \E k \in 1..Len(pat) :
                      /\ pat[k] = ":" \o parsed.params[n][1]
                      /\ parts[k] = parsed.params[n][2]

\* a route that two registered patterns match was resolved to the one
\* registered first
C13_Witness ==
    /\ parsed.matched
    /\ \E i, j \in 1..Len(routeTable) :
          /\ i < j
          /\ SameShape(routeTable[i].path, requested)
          /\ SameShape(routeTable[j].path, requested)
          /\ parsed.path = routeTable[i].path
          /\ parsed.params # <<>>

\* C14: a search whose term is empty or only whitespace returns the empty
\* result at once, in both clients: the step that returns it sends no
\* remote query and leaves the cache as it was, and no pending search call
\* has a blank term
C14_BlankSearchTouchesNothing ==
    [][/\ (lastOp' # lastOp /\ lastOp'.op = "search" /\ IsBlank(lastOp'.q))
           => /\ lastOp'.res = EmptyList
              /\ ~lastOp'.threw
              /\ lastOp'.remote = 0
              /\ calls' = calls
              /\ cache' = cache
       /\ (sanityLast' # sanityLast /\ sanityLast'.op = "search"
           /\ IsBlank(sanityLast'.q))
           => /\ sanityLast'.res = EmptyList
              /\ sanityLast'.remote = 0
              /\ sanityCalls' = sanityCalls
              /\ sanityCache' = sanityCache
       /\ \A i \in 1..Len(calls') :
             calls'[i].op = "search" => ~IsBlank(calls'[i].q)
       /\ \A i \in 1..Len(sanityCalls') :
             sanityCalls'[i].op = "search" => ~IsBlank(sanityCalls'[i].q)]_vars

C14_Witness ==
    /\ lastOp.op = "search" /\ lastOp.q = "   " /\ lastOp.res = EmptyList
    /\ lastOp.remote = 0 /\ calls = <<>> /\ cache = <<>>
    /\ sanityLast.op = "search" /\ sanityLast.q = "" 
    /\ sanityLast.res = EmptyList /\ sanityCalls = <<>>

\* the hits of the collections whose query succeeded, in the order searched
RECURSIVE HitsOf(_)
HitsOf(found) ==
    IF found = <<>> THEN 0
    ELSE (IF Head(found)[2] >= 0 THEN Head(found)[2] ELSE 0)
         + HitsOf(Tail(found))

\* C19: a search with a non-empty term never rejects, and a query that
\* fails contributes no hits: the result of the Appwrite client is the
\* hits of the collections that answered (the first 10 of them), and the
\* result of the Sanity client after a failed query holds no hits
C19_FailedQueryContributesNothing ==
    /\ (lastOp.op = "search" /\ ~IsBlank(lastOp.q))
        => /\ ~lastOp.threw
           /\ lastOp.res = SearchHits(Min(HitsOf(lastOp.found), 10))
    /\ (sanityLast.op = "search" /\ ~IsBlank(sanityLast.q)
        /\ sanityLast.failed)
        => sanityLast.res = EmptyList

\* the step is the return of a call of one of the operations ops: at once
\* when it was called, or when the answer it awaited arrived
Returned(ops) ==
    /\ lastOp'.op \in ops
    /\ \/ inputs' # inputs /\ calls' = calls
       \/ Len(calls') < Len(calls)

\* C20: an entry of the cache stays as it is in every step, except that a
\* fetch of its key that succeeded replaces it by the fetched data stamped
\* with the present time, and that clearCache, clearCacheByCollection or
\* the clearing of a successful create removes it; and every fetch that
\* succeeded leaves its data under its key stamped with the present time
C20_EntriesStayUntilCleared ==
    [][/\ \A k \in DOMAIN cache :
             \/ k \in DOMAIN cache' /\ cache'[k] = cache[k]
             \/ /\ k \in DOMAIN cache'
                /\ Returned({"list", "getById"})
                /\ lastOp'.key = k /\ lastOp'.remote > 0 /\ ~lastOp'.failed
             \/ /\ k \notin DOMAIN cache'
                /\ \/ Returned({"clearCache"})
                   \/ /\ Returned({"clearCacheByCollection"})
                      /\ Includes(k, lastOp'.coll)
                   \/ /\ Returned({"create"}) /\ ~lastOp'.failed
                      /\ Includes(k, lastOp'.coll)
       /\ (/\ Returned({"list", "getById"})
           /\ lastOp'.remote > 0 /\ ~lastOp'.failed)
           => /\ lastOp'.key \in DOMAIN cache'
              /\ cache'[lastOp'.key] =
                     [data |-> lastOp'.res, timestamp |-> now']]_vars

\* a stale entry was overwritten by a later successful fetch
C20_Witness ==
    /\ lastOp.op = "list" /\ lastOp.remote = 1 /\ ~lastOp.failed
    /\ lastOp.entry0 # NoEntry
    /\ now - lastOp.entry0.timestamp >= cacheTimeout
    /\ lastOp.key \in DOMAIN cache
    /\ cache[lastOp.key].timestamp = now
    /\ cache[lastOp.key].data = lastOp.res

\* the latest navigation event has been dispatched: a dispatch of it is in
\* flight or was the last to end
Dispatched ==
    \/ \E i \in InFlight(Cur) :
          dispatches[i].route = hash /\ dispatches[i].event = inputs
    \/ lastDispatch.route = hash /\ lastDispatch.event = inputs
          /\ lastDispatch.view # "none"

\* C15: when the handler of a dispatch threw or its promise rejected, the
\* dispatch ended inside handleRoute with the generic error view in the
\* content region, and every later change of the fragment is dispatched
C15_HandlerFailureRendersError ==
    /\ [](lastDispatch.rejected
            => (lastDispatch.view = "error" /\ content = ViewError))
    /\ [][hash' # hash => Dispatched']_vars

C15_Witness ==
    /\ lastDispatch.rejected
    /\ lastDispatch.handler = "submitHandler"
    /\ lastDispatch.threw
    /\ content = ViewError
    /\ \E i \in InFlight(Cur) : dispatches[i].event > lastDispatch.event

OutcomeOf(view) ==
    CASE view \in {"home", "list", "detail", "results", "search", "custom"}
              -> "Rendered"
      [] view = "404" -> "NotFound"
      [] view = "error" -> "Errored"
      [] OTHER -> "none"

\* C16: every navigation event is dispatched once and ends in one of
\* Rendered, NotFound and Errored: the dispatch that ended last has one of
\* the three outcomes, no event has two dispatches in flight, and no event
\* whose dispatch has ended has another dispatch in flight
C16_OneOutcomePerEvent ==
    /\ lastDispatch.view # "none"
          => OutcomeOf(lastDispatch.view) \in {"Rendered", "NotFound", "Errored"}
    /\ \A i, j \in InFlight(Cur) :
          dispatches[i].event = dispatches[j].event => i = j
    /\ \A i \in InFlight(Cur) :
          lastDispatch.view # "none"
             => dispatches[i].event # lastDispatch.event

\* the parameter names of a pattern
ParamNames(pattern) ==
    LET pat == Split(pattern, "/")
    IN  {SubSeq(pat[k], 2, Len(pat[k])) : k \in {n \in 1..Len(pat) :
                                                   StartsWith(pat[n], ":")}}

\* C24: the route parseRoute returns is the string it was given; for a
\* matched pattern the keys of params are exactly the parameter names of
\* that pattern, and each name is bound to the segment of the route at the
\* position of its ':' segment, the empty segment included; nothing else is
\* bound, whatever patterns were tried before
C24_ParamsAreThoseOfThePattern ==
    /\ parsed # NoParse => parsed.route = requested
    /\ parsed.matched =>
          LET pat == Split(parsed.path, "/")
              parts == Split(requested, "/")
          IN  /\ {parsed.params[n][1] : n \in 1..Len(parsed.params)}
                    = ParamNames(parsed.path)
              /\ \A k \in 1..Len(pat) :
                    StartsWith(pat[k], ":")
                       => ParamGet(parsed.params,
                                   SubSeq(pat[k], 2, Len(pat[k]))) = parts[k]
    /\ ~parsed.matched => parsed.params = <<>>

\* `opportunities/` was matched to `opportunities/:id` after the pattern
\* `:kind/featured` had been tried: id is bound to the empty segment and
\* kind is not bound
C24_Witness ==
    /\ parsed.matched
    /\ requested = "opportunities/"
    /\ parsed.path = "opportunities/:id"
    /\ parsed.params = <<<<"id", "">>>>
    /\ routeTable[1].path = ":kind/featured"

\* the handler that handleRoute invokes for route on the route table rs
Invoked(rs, route) ==
    LET S == handleRoute([Blank EXCEPT !.hash = route, !.routes = rs], 1)
    IN  IF S.dispatches[1].handler # "undefined"
        THEN S.dispatches[1].handler
        ELSE S.lastDispatch.handler

\* C26: the route table holds one entry per pattern; after addRoute(path,
\* handler) the entry of path holds handler, also when path was registered
\* before with another handler, and dispatching a route that resolves to
\* path invokes handler
C26_LaterRegistrationReplaces ==
    /\ \A i, j \in 1..Len(routeTable) :
          routeTable[i].path = routeTable[j].path => i = j
    /\ registered # NoRegistration
          => RoutesGet(routeTable, registered.path) = registered.handler
    /\ (parsed.matched /\ parsed.path = registered.path)
          => Invoked(routeTable, requested) = registered.handler

\* `opportunities/:id` was registered twice with different handlers and a
\* route was resolved to it
C26_Witness ==
    /\ registered.path = "opportunities/:id"
    /\ registered.was = "renderOpportunities"
    /\ registered.handler = "renderOpportunityDetail"
    /\ parsed.matched
    /\ requested = "opportunities/42"
    /\ parsed.path = registered.path
    /\ Invoked(routeTable, requested) = "renderOpportunityDetail"

\* C30: the loading indicator is in the document whenever a dispatch is
\* still awaiting its handler, also after another dispatch that overlapped
\* with it has ended
C30_LoaderWhileAnyDispatchInFlight ==
    InFlight(Cur) # {} => loader

\* C28: when no dispatch is in flight, the content region was rendered by
\* the dispatch of the current fragment, and currentRoute, the document
\* title and the highlighted navigation item are those of that fragment
C28_PageAgreesWithFragment ==
    InFlight(Cur) = {} =>
        /\ lastDispatch.route = hash
        /\ content.view = lastDispatch.view
        /\ currentRoute = hash
        /\ title = updatePageTitle(hash)
        /\ navActive = updateNavigation(hash)

\* C29: no entry of either cache holds fallback data, and fallback data is
\* returned only by a call whose own remote request failed, never from the
\* cache
C29_MockIsNeverCached ==
    /\ \A k \in DOMAIN cache : cache[k].data.src = "remote"
    /\ \A k \in DOMAIN sanityCache : sanityCache[k].data.src # "mock"
    /\ lastOp.res.src = "mock" => (lastOp.failed /\ lastOp.remote > 0)
    /\ sanityLast.res.src = "mock"
          => (sanityLast.failed /\ sanityLast.remote > 0)

\* a list call fell back to mock data, and the next call for the same key
\* fetched from the remote store, which had recovered
C29_Witness ==
    /\ lastOp.op = "list" /\ lastOp.prev.op = "list"
    /\ lastOp.prev.key = lastOp.key
    /\ lastOp.prev.failed /\ lastOp.prev.res.src = "mock"
    /\ lastOp.t0 >= lastOp.prev.t0
    /\ lastOp.remote = 1 /\ ~lastOp.failed /\ lastOp.res.src = "remote"
    /\ cache[lastOp.key].data = lastOp.res

\* the step is the clearing of the entries of a collection: a call of
\* clearCacheByCollection, or the return of a create that succeeded
Invalidated ==
    \/ Returned({"clearCacheByCollection"})
    \/ Returned({"create"}) /\ ~lastOp'.failed

\* C22: clearCacheByCollection(name), and every create that succeeded,
\* removes from the cache exactly the entries whose key contains the name of
\* the collection as a substring, and leaves every other entry as it was
C22_ClearsExactlyKeysContainingName ==
    [][Invalidated =>
          /\ DOMAIN cache' =
                 {k \in DOMAIN cache : ~Includes(k, lastOp'.coll)}
          /\ \A k \in DOMAIN cache' : cache'[k] = cache[k]]_vars

\* a create of a company succeeded after two lists of opportunities had
\* been cached: the one filtered by the value "companies" is gone, the
\* unfiltered one is still there
C22_Witness ==
    /\ lastOp.op = "create" /\ ~lastOp.failed /\ lastOp.coll = "companies"
    /\ lastOp.prev.op = "list" /\ lastOp.prev.remote > 0
    /\ ~lastOp.prev.failed
    /\ lastOp.prev.key =
           getCacheKey("opportunities", <<Str("type", "companies")>>)
    /\ lastOp.prev.key \notin DOMAIN cache
    /\ getCacheKey("opportunities", <<>>) \in DOMAIN cache

\* C27: a list fetch issued before a create on its collection and answered
\* after the create cleared the cache does not put the page of before the
\* create back: no cached page is older than its collection, and a list
\* call made when no request is in flight and served from the cache returns
\* a page that is as new as the collection
C27_NoPreCreationPageAfterCreate ==
    /\ \A k \in DOMAIN cache :
          (cache[k].data.kind = "page" /\ calls = <<>>)
              => cache[k].data.rev = db[cache[k].data.coll]
    /\ (/\ lastOp.op = "list" /\ lastOp.remote = 0 /\ ~lastOp.failed
        /\ calls = <<>>)
           => lastOp.res.rev = db[lastOp.coll]

\* the filters object the list call of a section is to receive when value
\* was chosen in its filter select and page as its page number
ChosenFilters(section, value, page) ==
    LET filters == ListFilters(RoutesGet(routes, section))
    IN  [i \in 1..Len(filters) |->
            CASE filters[i][1] = FilterKey(section) -> Str(filters[i][1], value)
              [] filters[i][1] = "offset" -> Num("offset", (page - 1) * 12)
              [] OTHER -> filters[i]]

\* the query text q of a list call on coll is the one for what route, a
\* route of handleFilterChange or goToPage on a list page, chose
CarriesChoice(route, handler, coll, q) ==
    \E section \in FilterSections :
        /\ handler = RoutesGet(routes, section)
        /\ coll = HandlerInfo(handler).coll
        /\ \/ \E value \in FilterOptions(section) \ {""} :
                 /\ route = FilterRoute(section, FilterKey(section), value)
                 /\ q = Stringify(ChosenFilters(section, value, 1))
           \/ \E page \in Pages :
                 /\ route = PageRoute(section, page)
                 /\ q = Stringify(ChosenFilters(section, "", page))

\* C21: the dispatch that handleFilterChange or goToPage starts on a list
\* page runs the list handler of the section, and the list call of that
\* handler has the chosen discriminator and the offset (page - 1) * 12 in
\* its filters
C21_ChoiceReachesListCall ==
    /\ \A d \in Running :
          d.event >= 1 =>
              \E i \in 1..Len(calls) :
                  /\ calls[i].disp = d.id /\ calls[i].op = "list"
                  /\ CarriesChoice(d.route, d.handler, calls[i].coll, calls[i].q)
    /\ (lastDispatch.event >= 1 /\ lastDispatch.view # "none"
            /\ ~lastDispatch.failed)
          => /\ lastDispatch.view = "list"
             /\ CarriesChoice(lastDispatch.route, lastDispatch.handler,
                              lastDispatch.res.coll, lastDispatch.res.q)

\* C23: the list fetch of a dispatch whose route is no longer the current
\* one is not cancelled: when it is answered successfully, the page is
\* stored under the key of the call with the present time; and a list call
\* that finds an entry under its key younger than the cache lifetime
\* returns the data of that entry, sends no request and leaves the cache
\* as it is
C23_SupersededFetchStillCaches ==
    [][/\ (/\ Returned({"list"})
           /\ lastOp'.remote > 0 /\ ~lastOp'.failed
           /\ lastDispatch' # lastDispatch
           /\ lastDispatch'.route # hash)
          => /\ lastOp'.key \in DOMAIN cache'
             /\ cache'[lastOp'.key] =
                    [data |-> lastOp'.res, timestamp |-> now]
             /\ lastOp'.res.src = "remote"
       /\ (/\ Returned({"list"})
           /\ inputs' # inputs
           /\ lastOp'.key \in DOMAIN cache
           /\ now - cache[lastOp'.key].timestamp < cacheTimeout)
          => /\ lastOp'.remote = 0
             /\ lastOp'.res = cache[lastOp'.key].data
             /\ calls' = calls
             /\ cache' = cache]_vars

\* the page was opened on opportunities and left for the directory while
\* getOpportunities was unresolved; the answer came and was cached, and a
\* later getOpportunities with the filters of the handler returned that
\* page without a request
C23_Witness ==
    /\ hash = "directory" /\ "opportunities" \in raced
    /\ lastOp.op = "list" /\ lastOp.remote = 0 /\ ~lastOp.failed
    /\ lastOp.key =
           getCacheKey("opportunities", ListFilters("renderOpportunities"))
    /\ lastOp.res.src = "remote"
    /\ lastOp.entry0 # NoEntry /\ lastOp.entry0.data = lastOp.res
    /\ lastOp.prev.op = "list" /\ lastOp.prev.key = lastOp.key
    /\ lastOp.prev.remote = 1

\* the tag type leads the router to the section that lists the collection
IdentifiesCollection(type, collection) ==
    /\ routePaths(type) # "undefined"
    /\ HandlerInfo(RoutesGet(routes, routePaths(type))).coll = collection

\* C25: a search with a non-empty term returns at most 10 hits, and the tag
\* of every hit identifies the collection the hit was read from
C25_AtMostTenTaggedHits ==
    (lastOp.op = "search" /\ ~IsBlank(lastOp.q) /\ ~lastOp.threw)
        => LET hits == limitedResults(lastOp.found)
           IN  /\ lastOp.res = SearchHits(Len(hits))
               /\ Len(hits) <= 10
               /\ \A i \in 1..Len(hits) :
                     IdentifiesCollection(hits[i].type, hits[i].from)

=============================================================================
